---- MODULE Spec2Model ----
(***************************************************************************)
(* Model of src/ajax_listener.js: the completion observer.  The script     *)
(* polls for the global jQuery, binds one 'ajaxComplete' handler, and the  *)
(* handler pushes a 'lead_form_completed' event to the global dataLayer    *)
(* when the finished request is a successful form submission.              *)
(*                                                                         *)
(* The host page is the environment: it loads (or removes) jQuery, creates *)
(* the dataLayer, pushes its own events to it, fires the poll timer and    *)
(* delivers 'ajaxComplete' notifications, one task at a time.              *)
(***************************************************************************)
EXTENDS Integers, Sequences, FiniteSets, TLC

\* ------------------------------------------------------------------ bounds
\* Notifications the page delivers in one run.
MaxNotifications == 2
\* Readiness checks that are recorded in checkLog (later ones still run).
MaxChecks == 3
\* Events the page pushes to the dataLayer after the snippet's first entry.
MaxForeign == 1

\* ------------------------------------------------------- JavaScript values
\* A primitive value is a record of its type tag and its payload; an object
\* is the tag "object" (its properties are kept beside it, see Response).
Undefined == [type |-> "undefined", num |-> 0, str |-> ""]
Null == [type |-> "null", num |-> 0, str |-> ""]
Bool(b) == [type |-> "boolean", num |-> IF b THEN 1 ELSE 0, str |-> ""]
Num(k) == [type |-> "number", num |-> k, str |-> ""]
Str(s) == [type |-> "string", num |-> 0, str |-> s]
Obj == [type |-> "object", num |-> 0, str |-> ""]

\* ToBoolean, as `response && ...` and `evt.timeStamp || ''` apply it.
ToBoolean(v) ==
    CASE v.type = "undefined" -> FALSE
      [] v.type = "null" -> FALSE
      [] v.type = "boolean" -> v.num = 1
      [] v.type = "number" -> v.num # 0
      [] v.type = "string" -> v.str # ""
      [] OTHER -> TRUE

\* a == b on primitives: a boolean operand is converted to a number first,
\* then a number and a string compare by the string's numeric value (the
\* only strings of the model are non-numeric, or empty, which is 0).
LooseEquals(a, b) ==
    LET ToNum(v) == IF v.type = "boolean" THEN Num(v.num) ELSE v
        x == ToNum(a)
        y == ToNum(b)
    IN  \/ x = y
        \/ x.type = "null" /\ y.type = "undefined"
        \/ x.type = "undefined" /\ y.type = "null"
        \/ x.type = "number" /\ y.type = "string" /\ y.str = "" /\ x.num = 0
        \/ x.type = "string" /\ y.type = "number" /\ x.str = "" /\ y.num = 0

\* a === b on primitives: same type and same payload.
StrictEquals(a, b) == a.type = b.type /\ a.num = b.num /\ a.str = b.str

\* a || b
OrElse(a, b) == IF ToBoolean(a) THEN a ELSE b

\* ------------------------------------------------------------------ strings
\* A string is the sequence of its characters.
signup_resource == <<"/","w","p","-","a","d","m","i","n","/","a","d","m","i","n","-","a","j","a","x",".","p","h","p">>
Origin == <<"h","t","t","p","s",":","/","/","s","i","t","e",".","t","e","s","t">>
ActionQuery == <<"?","a","c","t","i","o","n","=","s","i","g","n","u","p">>
OtherResource == <<"/","w","p","-","a","d","m","i","n","/","a","d","m","i","n","-","p","o","s","t",".","p","h","p">>
TruncatedResource == <<"/","w","p","-","a","d","m","i","n","/","a","d","m","i","n","-","a","j","a","x",".","p","h">>

\* String.prototype.indexOf(needle): the 0-based position of the first
\* occurrence, -1 when there is none.
IndexOf(hay, needle) ==
    LET n == Len(needle)
        hits == {i \in 1..(Len(hay) - n + 1) : SubSeq(hay, i, i + n - 1) = needle}
    IN  IF hits = {} THEN -1
        ELSE (CHOOSE i \in hits : \A j \in hits : i <= j) - 1

\* --------------------------------------------------------------- the inputs
\* opts.url of a finished request (jQuery always sets it to a string).
Urls ==
    { Origin \o signup_resource \o ActionQuery,
      signup_resource,
      Origin \o OtherResource,
      TruncatedResource \o ActionQuery }

\* jqXhr.responseJSON: the value itself and its own property 'success'
\* (undefined when the property is missing or the value is a primitive).
Response(self, success) == [self |-> self, success |-> success]
Responses ==
    { Response(Undefined, Undefined),
      Response(Null, Undefined),
      Response(Obj, Undefined),
      Response(Obj, Bool(TRUE)),
      Response(Obj, Bool(FALSE)),
      Response(Obj, Num(1)),
      Response(Obj, Str("true")) }

\* evt.timeStamp
TimeStamps == { Undefined, Num(0), Num(1234) }

Notifications == [url : Urls, response : Responses, timeStamp : TimeStamps]

NoNotification == [url |-> <<>>, response |-> Response(Undefined, Undefined), timeStamp |-> Undefined]

\* ------------------------------------------------------------------- state
VARIABLES
    jQueryDefined,      \* typeof jQuery !== 'undefined'
    dollar,             \* var $
    started,            \* the script's top-level call has run
    timers,             \* pending setTimeout(waitForjQuery, 500) callbacks
    handlers,           \* 'ajaxComplete' handlers bound on document
    dataLayerDefined,   \* the global dataLayer exists
    dataLayer,          \* its entries, oldest first
    console,            \* console.log output, oldest first
    checkLog,           \* history: one entry per readiness check
    delivered,          \* history: notifications delivered so far
    foreign,            \* history: events pushed by the page itself
    matched,            \* history: the successful submissions seen while bound
    last                \* history: what the last step was

vars == <<jQueryDefined, dollar, started, timers, handlers, dataLayerDefined,
          dataLayer, console, checkLog, delivered, foreign, matched, last>>

\* The tag manager snippet's own first entry.
GtmEvent == [event |-> "gtm.js", attributes |-> [time |-> Undefined]]

Step(op, n, ran, threw) == [op |-> op, n |-> n, ran |-> ran, threw |-> threw]

\* The spec's names for the startup protocol's states.
WAITING == started /\ dollar = "undefined"
ATTACHED == dollar = "jQuery"

Init ==
    /\ jQueryDefined \in BOOLEAN
    /\ dollar = "undefined"
    /\ started = FALSE
    /\ timers = 0
    /\ handlers = 0
    /\ dataLayerDefined \in BOOLEAN
    /\ dataLayer = IF dataLayerDefined THEN <<GtmEvent>> ELSE <<>>
    /\ console = <<>>
    /\ checkLog = <<>>
    /\ delivered = 0
    /\ foreign = 0
    /\ matched = <<>>
    /\ last = Step("none", NoNotification, 0, FALSE)

\* ------------------------------------------------------------ the history
\* What the claims say of a url, written without the handler's own code.
ContainsResource(url) ==
    \E i \in 1..Len(url) :
        /\ i + Len(signup_resource) - 1 <= Len(url)
        /\ \A j \in 1..Len(signup_resource) : url[i + j - 1] = signup_resource[j]

MatchingUrls == {u \in Urls : ContainsResource(u)}

\* The response exists and its success field is the boolean true.
SuccessTrue(r) ==
    /\ r.self.type \notin {"undefined", "null"}
    /\ r.success.type = "boolean"
    /\ r.success.num = 1

\* matched after the delivery of n: a successful submission delivered once
\* the observer is ATTACHED is noted with its timestamp and with whether
\* the dataLayer existed at that moment.
Noted(n) ==
    IF ATTACHED /\ n.url \in MatchingUrls /\ SuccessTrue(n.response)
    THEN Append(matched, [time |-> n.timeStamp, queue |-> dataLayerDefined])
    ELSE matched

\* ------------------------------------------------------ the handler's code
\* requested_url.indexOf(signup_resource), tabulated once for the urls of
\* the model.
UrlIndex == [u \in Urls |-> IndexOf(u, signup_resource)]

\* Faulty variant: the index itself is used as the condition, so that only
\* a match at position 0 is falsy (-1 is truthy).
CompletedTruthyIndex(n) ==
    /\ UrlIndex[n.url] # 0
    /\ ToBoolean(n.response.self)
    /\ StrictEquals(n.response.success, Bool(TRUE))

\* Faulty variant: the resource is looked for at the start of the url only.
CompletedAtStart(n) ==
    /\ UrlIndex[n.url] = 0
    /\ ToBoolean(n.response.self)
    /\ StrictEquals(n.response.success, Bool(TRUE))

\* Faulty variant: success == true instead of success === true.
CompletedLoose(n) ==
    /\ UrlIndex[n.url] # -1
    /\ ToBoolean(n.response.self)
    /\ LooseEquals(n.response.success, Bool(TRUE))

\* The condition of the if.
Completed(n) ==
    /\ UrlIndex[n.url] # -1
    /\ ToBoolean(n.response.self)
    /\ StrictEquals(n.response.success, Bool(TRUE))

\* Faulty variant: the timestamp is stored without the || '' fallback.
LeadEventNoFallback(n) ==
    [event |-> "lead_form_completed",
     attributes |-> [time |-> n.timeStamp]]

\* The object literal pushed to the dataLayer.
LeadEvent(n) ==
    [event |-> "lead_form_completed",
     attributes |-> [time |-> OrElse(n.timeStamp, Str(""))]]

\* Faulty variant: the event is put at the front of the queue (unshift).
HandlerUnshift(n, defined, st) ==
    IF Completed(n)
    THEN IF defined
         THEN [dataLayer |-> <<LeadEvent(n)>> \o st.dataLayer,
               console |-> Append(st.console, "lead_form_completed"),
               threw |-> FALSE]
         ELSE [st EXCEPT !.threw = TRUE]
    ELSE [st EXCEPT !.console = Append(st.console, "lead_form_not_completed")]

\* Faulty variant: the push is deferred to a later task (setTimeout), so
\* the handler returns with the event not yet in the queue.
HandlerDeferred(n, defined, st) ==
    IF Completed(n)
    THEN [st EXCEPT !.console = Append(st.console, "lead_form_completed")]
    ELSE [st EXCEPT !.console = Append(st.console, "lead_form_not_completed")]

\* Faulty variant: a submission is reported only while the queue holds no
\* 'lead_form_completed' entry yet.
HandlerOnce(n, defined, st) ==
    IF Completed(n)
          /\ \A i \in 1..Len(st.dataLayer) : st.dataLayer[i].event # "lead_form_completed"
    THEN IF defined
         THEN [dataLayer |-> Append(st.dataLayer, LeadEvent(n)),
               console |-> Append(st.console, "lead_form_completed"),
               threw |-> FALSE]
         ELSE [st EXCEPT !.threw = TRUE]
    ELSE [st EXCEPT !.console = Append(st.console, "lead_form_not_completed")]

\* Faulty variant: console.log comes before dataLayer.push.
HandlerLogFirst(n, defined, st) ==
    IF Completed(n)
    THEN IF defined
         THEN [dataLayer |-> Append(st.dataLayer, LeadEvent(n)),
               console |-> Append(st.console, "lead_form_completed"),
               threw |-> FALSE]
         ELSE [st EXCEPT !.console = Append(st.console, "lead_form_completed"),
                         !.threw = TRUE]
    ELSE [st EXCEPT !.console = Append(st.console, "lead_form_not_completed")]

\* One run of the handler on the page state st = [dataLayer, console, threw].
\* Resolving the identifier dataLayer throws a ReferenceError when the global
\* does not exist: nothing is pushed and nothing is logged.
Handler(n, defined, st) ==
    IF Completed(n)
    THEN IF defined
         THEN [dataLayer |-> Append(st.dataLayer, LeadEvent(n)),
               console |-> Append(st.console, "lead_form_completed"),
               threw |-> FALSE]
         ELSE [st EXCEPT !.threw = TRUE]
    ELSE [st EXCEPT !.console = Append(st.console, "lead_form_not_completed")]

\* jQuery runs the bound handlers in order; an exception leaves the dispatch.
RECURSIVE Dispatch(_, _, _, _)
Dispatch(k, n, defined, st) ==
    IF k = 0 \/ st.threw THEN st
    ELSE Dispatch(k - 1, n, defined, Handler(n, defined, st))

\* ----------------------------------------------------------- the observer
\* bindToAjax(): $(document).bind('ajaxComplete', handler)
bindToAjax(h) == h + 1

\* Faulty variant: setTimeout is called after the if, on both branches, so
\* the poll goes on after the handler is bound.
waitForjQueryAlwaysRearm(t) ==
    /\ IF jQueryDefined
       THEN /\ dollar' = "jQuery"
            /\ handlers' = bindToAjax(handlers)
       ELSE UNCHANGED <<dollar, handlers>>
    /\ timers' = t + 1
    /\ checkLog' = IF Len(checkLog) < MaxChecks
                   THEN Append(checkLog, [present |-> jQueryDefined, handlers |-> handlers'])
                   ELSE checkLog
    /\ last' = Step("waitForjQuery", NoNotification, 0, FALSE)
    /\ UNCHANGED <<jQueryDefined, dataLayerDefined, dataLayer, console, delivered, foreign, matched>>

\* Faulty variant: the else branch schedules nothing, a single check.
waitForjQueryNoRetry(t) ==
    /\ IF jQueryDefined
       THEN /\ dollar' = "jQuery"
            /\ handlers' = bindToAjax(handlers)
       ELSE UNCHANGED <<dollar, handlers>>
    /\ timers' = t
    /\ checkLog' = IF Len(checkLog) < MaxChecks
                   THEN Append(checkLog, [present |-> jQueryDefined, handlers |-> handlers'])
                   ELSE checkLog
    /\ last' = Step("waitForjQuery", NoNotification, 0, FALSE)
    /\ UNCHANGED <<jQueryDefined, dataLayerDefined, dataLayer, console, delivered, foreign, matched>>

\* Faulty variant: the handler is bound before the check, on every call.
waitForjQueryBindAlways(t) ==
    /\ handlers' = bindToAjax(handlers)
    /\ IF jQueryDefined
       THEN /\ dollar' = "jQuery"
            /\ timers' = t
       ELSE /\ timers' = t + 1
            /\ UNCHANGED dollar
    /\ checkLog' = IF Len(checkLog) < MaxChecks
                   THEN Append(checkLog, [present |-> jQueryDefined, handlers |-> handlers'])
                   ELSE checkLog
    /\ last' = Step("waitForjQuery", NoNotification, 0, FALSE)
    /\ UNCHANGED <<jQueryDefined, dataLayerDefined, dataLayer, console, delivered, foreign, matched>>

\* The body of waitForjQuery(), run with t timers still pending.
waitForjQuery(t) ==
    /\ IF jQueryDefined
       THEN /\ dollar' = "jQuery"
            /\ handlers' = bindToAjax(handlers)
            /\ timers' = t
       ELSE /\ timers' = t + 1
            /\ UNCHANGED <<dollar, handlers>>
    /\ checkLog' = IF Len(checkLog) < MaxChecks
                   THEN Append(checkLog, [present |-> jQueryDefined, handlers |-> handlers'])
                   ELSE checkLog
    /\ last' = Step("waitForjQuery", NoNotification, 0, FALSE)
    /\ UNCHANGED <<jQueryDefined, dataLayerDefined, dataLayer, console, delivered, foreign, matched>>

\* The script is evaluated: the first check runs synchronously.
Start ==
    /\ ~started
    /\ started' = TRUE
    /\ waitForjQuery(timers)

\* Faulty variant: setInterval instead of setTimeout, the timer that fired
\* stays pending.
TimerTickInterval ==
    /\ timers > 0
    /\ timers < MaxChecks
    /\ UNCHANGED started
    /\ waitForjQuery(timers)

\* A pending poll timer fires.
TimerTick ==
    /\ timers > 0
    /\ UNCHANGED started
    /\ waitForjQuery(timers - 1)

\* Faulty variant: the handler is bound with .one(), it is removed after
\* the first notification.
AjaxCompleteOne(n) ==
    /\ delivered < MaxNotifications
    /\ delivered' = delivered + 1
    /\ LET st == Dispatch(handlers, n, dataLayerDefined,
                          [dataLayer |-> dataLayer, console |-> console, threw |-> FALSE])
       IN  /\ dataLayer' = st.dataLayer
           /\ console' = st.console
           /\ last' = Step("ajaxComplete", n, handlers, st.threw)
    /\ matched' = Noted(n)
    /\ handlers' = 0
    /\ UNCHANGED <<jQueryDefined, dollar, started, timers,
                   dataLayerDefined, checkLog, foreign>>

\* jQuery triggers 'ajaxComplete' on document for a finished request.
AjaxComplete(n) ==
    /\ delivered < MaxNotifications
    /\ delivered' = delivered + 1
    /\ LET st == Dispatch(handlers, n, dataLayerDefined,
                          [dataLayer |-> dataLayer, console |-> console, threw |-> FALSE])
       IN  /\ dataLayer' = st.dataLayer
           /\ console' = st.console
           /\ last' = Step("ajaxComplete", n, handlers, st.threw)
    /\ matched' = Noted(n)
    /\ UNCHANGED <<jQueryDefined, dollar, started, timers, handlers,
                   dataLayerDefined, checkLog, foreign>>

\* -------------------------------------------------------- the environment
\* The page finishes loading jQuery.
LoadjQuery ==
    /\ ~jQueryDefined
    /\ jQueryDefined' = TRUE
    /\ last' = Step("env", NoNotification, 0, FALSE)
    /\ UNCHANGED <<dollar, started, timers, handlers, dataLayerDefined,
                   dataLayer, console, checkLog, delivered, foreign, matched>>

\* The page removes the global again (jQuery.noConflict(true)).
UnloadjQuery ==
    /\ jQueryDefined
    /\ jQueryDefined' = FALSE
    /\ last' = Step("env", NoNotification, 0, FALSE)
    /\ UNCHANGED <<dollar, started, timers, handlers, dataLayerDefined,
                   dataLayer, console, checkLog, delivered, foreign, matched>>

\* The tag manager snippet creates the dataLayer with its first entry.
DefineDataLayer ==
    /\ ~dataLayerDefined
    /\ dataLayerDefined' = TRUE
    /\ dataLayer' = <<GtmEvent>>
    /\ last' = Step("env", NoNotification, 0, FALSE)
    /\ UNCHANGED <<jQueryDefined, dollar, started, timers, handlers,
                   console, checkLog, delivered, foreign, matched>>

\* The tag manager or the page pushes an event of its own.
ForeignPush ==
    /\ dataLayerDefined
    /\ foreign < MaxForeign
    /\ dataLayer' = Append(dataLayer, GtmEvent)
    /\ foreign' = foreign + 1
    /\ last' = Step("env", NoNotification, 0, FALSE)
    /\ UNCHANGED <<jQueryDefined, dollar, started, timers, handlers,
                   dataLayerDefined, console, checkLog, delivered, matched>>

Next ==
    \/ Start
    \/ TimerTick
    \/ \E n \in Notifications : AjaxComplete(n)
    \/ LoadjQuery
    \/ UnloadjQuery
    \/ DefineDataLayer
    \/ ForeignPush

Spec == Init /\ [][Next]_vars

\* The host's timer queue runs every callback that stays pending, and the
\* script tag is evaluated once the page reaches it.
LiveSpec == Init /\ [][Next]_vars /\ WF_vars(Start) /\ WF_vars(TimerTick)

\* ================================================================ claims
\* This step is the delivery of one completion notification.
Delivery == delivered' = delivered + 1 /\ last'.op = "ajaxComplete"

\* The notification the last step delivered was run through the one handler.
Handled == last.op = "ajaxComplete" /\ last.ran = 1

TimeOf(ts) == [event |-> "lead_form_completed", attributes |-> [time |-> ts]]

\* The entries a step added at the end of the queue.
Added == SubSeq(dataLayer', Len(dataLayer) + 1, Len(dataLayer'))

\* C1 (as stated): every matching successful notification handled while
\* attached appends exactly one event named 'lead_form_completed' whose
\* attributes.time equals the notification's timestamp.
C1_Original ==
    [][(Delivery /\ handlers > 0 /\ last'.n.url \in MatchingUrls
            /\ SuccessTrue(last'.n.response))
        => dataLayer' = Append(dataLayer, TimeOf(last'.n.timeStamp))]_vars

\* C1 (amended): a matching successful notification handled while attached
\* appends exactly one event named 'lead_form_completed' when the dataLayer
\* exists, with attributes.time the timestamp when that is present and not
\* zero and '' otherwise; when the dataLayer does not exist the handler
\* faults and the queue is left as it was.
C1_MatchingAppendsOne ==
    [][(Delivery /\ handlers > 0 /\ last'.n.url \in MatchingUrls
            /\ SuccessTrue(last'.n.response))
        => IF dataLayerDefined
           THEN /\ ~last'.threw
                /\ dataLayer' = Append(dataLayer,
                      TimeOf(IF last'.n.timeStamp \in {Undefined, Num(0)}
                             THEN Str("") ELSE last'.n.timeStamp))
           ELSE last'.threw /\ dataLayer' = dataLayer]_vars

\* A matching successful notification with timestamp 1234 was handled with
\* the url's resource in the middle, and its event is the newest entry.
C1_Witness ==
    /\ Handled /\ ~last.threw
    /\ last.n.url = Origin \o signup_resource \o ActionQuery
    /\ SuccessTrue(last.n.response)
    /\ last.n.timeStamp = Num(1234)
    /\ Len(dataLayer) > 0
    /\ dataLayer[Len(dataLayer)] = TimeOf(Num(1234))

\* C2: a notification whose url does not contain the resource leaves the
\* queue unchanged, whatever its response and timestamp.
C2_OtherUrlNoEvent ==
    [][(Delivery /\ last'.n.url \notin MatchingUrls) => dataLayer' = dataLayer]_vars

\* A successful response for another url was handled while attached with
\* the dataLayer present.
C2_Witness ==
    /\ Handled /\ dataLayerDefined
    /\ last.n.url \notin MatchingUrls
    /\ SuccessTrue(last.n.response)
    /\ console # <<>>

\* C3: a notification for the resource whose response is absent or whose
\* success is not the boolean true leaves the queue unchanged.
C3_NotSuccessNoEvent ==
    [][(Delivery /\ last'.n.url \in MatchingUrls /\ ~SuccessTrue(last'.n.response))
        => dataLayer' = dataLayer]_vars

\* A response with success: 1 for the resource was handled while attached
\* with the dataLayer present.
C3_Witness ==
    /\ Handled /\ dataLayerDefined
    /\ last.n.url \in MatchingUrls
    /\ last.n.response = Response(Obj, Num(1))

\* C4: every event queued for a matching successful notification whose
\* timestamp is absent or zero has the key 'time' in its attributes, with
\* the value ''.
C4_EmptyTimeKept ==
    [][(Delivery /\ handlers > 0 /\ last'.n.url \in MatchingUrls
            /\ SuccessTrue(last'.n.response)
            /\ last'.n.timeStamp \in {Undefined, Num(0)})
        => /\ dataLayerDefined => Len(Added) = 1
           /\ \A i \in 1..Len(Added) :
                /\ "attributes" \in DOMAIN Added[i]
                /\ "time" \in DOMAIN Added[i].attributes
                /\ Added[i].attributes.time = Str("")]_vars

\* A matching successful notification with timestamp 0 was handled and its
\* event, with time '', is the newest entry.
C4_Witness ==
    /\ Handled /\ ~last.threw
    /\ last.n.url \in MatchingUrls
    /\ SuccessTrue(last.n.response)
    /\ last.n.timeStamp = Num(0)
    /\ Len(dataLayer) > 0
    /\ dataLayer[Len(dataLayer)].event = "lead_form_completed"
    /\ dataLayer[Len(dataLayer)].attributes.time = Str("")

\* The first check that found jQuery, among the recorded ones.
FirstPresent(i) ==
    /\ checkLog[i].present
    /\ \A j \in 1..(i - 1) : ~checkLog[j].present

\* C5: when jQuery is absent at the first k checks and present at check
\* k+1, the handler is bound during check k+1, not before, and no check
\* runs or is scheduled after it.
C5_AttachOnFirstPresent ==
    \A i \in 1..Len(checkLog) :
        FirstPresent(i) =>
            /\ \A j \in 1..(i - 1) : checkLog[j].handlers = 0
            /\ checkLog[i].handlers = 1
            /\ Len(checkLog) = i
            /\ timers = 0

\* jQuery was absent at two checks and present at the third, and the page
\* has since removed the global and delivered a notification.
C5_Witness ==
    /\ Len(checkLog) = 3
    /\ FirstPresent(3)
    /\ ~jQueryDefined
    /\ Handled

\* C6: at most one handler is ever bound: none before the script runs and
\* while WAITING, exactly one once ATTACHED, whatever ticks and
\* notifications follow.
C6_SingleSubscription ==
    /\ handlers <= 1
    /\ ~started => handlers = 0
    /\ WAITING => handlers = 0
    /\ ATTACHED => handlers = 1

\* The observer attached after a failed check and has handled two
\* notifications since.
C6_Witness ==
    /\ ATTACHED
    /\ Len(checkLog) >= 2
    /\ Handled
    /\ delivered = 2
    /\ Len(console) = 2

\* C7 (as stated): no step of the observer ends in an uncaught exception.
C7_NeverThrows == ~last.threw

\* C8 (as stated): every notification handled while attached logs exactly
\* one message, 'lead_form_completed' exactly when the step appended an
\* event and 'lead_form_not_completed' otherwise, and the queue changes
\* only when 'lead_form_completed' is logged.
C8_OneTracePerNotification ==
    [][(Delivery /\ handlers > 0)
        => /\ Len(console') = Len(console) + 1
           /\ SubSeq(console', 1, Len(console)) = console
           /\ console'[Len(console')] =
                IF Len(dataLayer') > Len(dataLayer)
                THEN "lead_form_completed" ELSE "lead_form_not_completed"
           /\ console'[Len(console')] = "lead_form_not_completed"
                => dataLayer' = dataLayer]_vars

\* This step is one of the observer's: a readiness check or a delivery.
ObserverStep == last'.op \in {"waitForjQuery", "ajaxComplete"} /\ vars' # vars

C10_EventuallyAttached ==
    /\ (<>[]jQueryDefined) => <>ATTACHED
    /\ [](WAITING => timers > 0)
    /\ [](last.op = "waitForjQuery" => ~last.threw)

\* The observer attached at a recorded check after every earlier recorded
\* check had failed.
C10_Witness ==
    /\ ATTACHED
    /\ Len(checkLog) = MaxChecks
    /\ FirstPresent(MaxChecks)

\* C11: once ATTACHED the observer stays ATTACHED with its one handler
\* bound, also when the page removes jQuery again, and every notification
\* delivered from then on is run through the handler exactly once.
C11_AttachedIsTerminal ==
    [][ATTACHED
        => /\ ATTACHED' /\ ~WAITING'
           /\ handlers = 1 /\ handlers' = 1
           /\ Delivery => last'.ran = 1]_vars

\* The attached observer has handled two notifications, the second after
\* the page had removed jQuery again.
C11_Witness ==
    /\ ATTACHED /\ ~jQueryDefined
    /\ Handled
    /\ delivered = 2
    /\ Len(console) = 2

\* C12: the event of a matching successful notification is in the queue
\* when the step that delivers it ends (with the dataLayer present), and a
\* delivery schedules nothing and changes nothing of the observer: no work
\* is left for a later task.
C12_SynchronousEmission ==
    [][Delivery
        => /\ timers' = timers
           /\ UNCHANGED <<dollar, handlers, started, jQueryDefined, dataLayerDefined>>
           /\ (handlers > 0 /\ dataLayerDefined /\ last'.n.url \in MatchingUrls
                  /\ SuccessTrue(last'.n.response))
                => /\ Len(dataLayer') = Len(dataLayer) + 1
                   /\ dataLayer'[Len(dataLayer')].event = "lead_form_completed"
                   /\ console'[Len(console')] = "lead_form_completed"]_vars

\* The state right after the delivery of a matching successful
\* notification: its event is the newest entry and no timer is pending.
C12_Witness ==
    /\ Handled /\ ~last.threw
    /\ last.n.url \in MatchingUrls
    /\ SuccessTrue(last.n.response)
    /\ timers = 0
    /\ Len(dataLayer) >= 2
    /\ dataLayer[Len(dataLayer)].event = "lead_form_completed"
    /\ console[Len(console)] = "lead_form_completed"

\* The outcome of handling n as a function of n alone: the entries added to
\* the queue and the messages logged.
OutcomeOf(n) ==
    IF n.url \in MatchingUrls /\ SuccessTrue(n.response)
    THEN [added |-> <<TimeOf(IF n.timeStamp \in {Undefined, Num(0)}
                             THEN Str("") ELSE n.timeStamp)>>,
          trace |-> <<"lead_form_completed">>]
    ELSE [added |-> <<>>, trace |-> <<"lead_form_not_completed">>]

\* C13: with the dataLayer present, what handling a notification appends
\* and logs is the same function of the notification in every state the
\* attached observer can be in, whatever was delivered before.
C13_NoCrossEventState ==
    [][(Delivery /\ handlers > 0 /\ dataLayerDefined)
        => /\ dataLayer' = dataLayer \o OutcomeOf(last'.n).added
           /\ console' = console \o OutcomeOf(last'.n).trace
           /\ ~last'.threw]_vars

\* The same matching successful notification was handled twice in a row
\* and appended the same event both times.
C13_Witness ==
    /\ Handled /\ delivered = 2
    /\ Len(matched) = 2
    /\ matched[1] = matched[2]
    /\ matched[1].queue
    /\ console = <<"lead_form_completed", "lead_form_completed">>
    /\ Len(dataLayer) >= 3
    /\ dataLayer[Len(dataLayer)] = dataLayer[Len(dataLayer) - 1]
    /\ dataLayer[Len(dataLayer)].event = "lead_form_completed"

\* C14: a notification delivered before the handler is bound appends
\* nothing and logs nothing, also when it is a successful submission, and
\* the readiness check that binds the handler replays nothing.
C14_NothingBeforeAttach ==
    [][/\ (Delivery /\ ~ATTACHED)
            => /\ dataLayer' = dataLayer
               /\ console' = console
               /\ last'.ran = 0 /\ ~last'.threw
       /\ (last'.op = "waitForjQuery" /\ checkLog' # checkLog)
            => /\ dataLayer' = dataLayer
               /\ console' = console]_vars

\* A successful submission was delivered while the observer was WAITING
\* with the dataLayer present, and left no trace.
C14_Witness ==
    /\ WAITING /\ dataLayerDefined
    /\ last.op = "ajaxComplete"
    /\ last.n.url \in MatchingUrls
    /\ SuccessTrue(last.n.response)
    /\ console = <<>>
    /\ dataLayer = <<GtmEvent>>

\* The entries of the queue that are the observer's.
IsLead(e) == e.event = "lead_form_completed"
Appended == SelectSeq(dataLayer, IsLead)

\* The events of the noted submissions that found the dataLayer present.
HadQueue(m) == m.queue
Expected ==
    LET ms == SelectSeq(matched, HadQueue)
    IN  [i \in 1..Len(ms) |->
            TimeOf(IF ms[i].time \in {Undefined, Num(0)} THEN Str("") ELSE ms[i].time)]

C16_OnePendingTimer ==
    /\ timers <= 1
    /\ ~started => timers = 0
    /\ WAITING => timers = 1
    /\ ATTACHED => timers = 0

\* The observer is WAITING after two failed checks, one timer pending.
C16_Witness ==
    /\ WAITING
    /\ Len(checkLog) = 2
    /\ timers = 1

\* Some noted submission found no dataLayer.
Faulted == \E i \in 1..Len(matched) : ~matched[i].queue

\* C17: a matching successful notification handled without a dataLayer
\* faults with nothing queued and nothing logged, the handler stays bound,
\* and a matching successful notification handled after such a fault, with
\* the dataLayer present, is queued and logged as usual.
C17_FaultRecordsNothing ==
    [][(Delivery /\ ATTACHED /\ last'.n.url \in MatchingUrls
            /\ SuccessTrue(last'.n.response))
        => /\ handlers' = 1
           /\ ~dataLayerDefined
                => /\ last'.threw
                   /\ dataLayer' = dataLayer
                   /\ console' = console
           /\ (dataLayerDefined /\ Faulted)
                => /\ ~last'.threw
                   /\ dataLayer' = dataLayer \o OutcomeOf(last'.n).added
                   /\ console' = Append(console, "lead_form_completed")]_vars

\* A submission faulted for want of the dataLayer, the page then created
\* it, and the next submission was queued.
C17_Witness ==
    /\ Handled /\ ~last.threw
    /\ Len(matched) = 2
    /\ ~matched[1].queue /\ matched[2].queue
    /\ console = <<"lead_form_completed">>
    /\ Len(dataLayer) = 2
    /\ dataLayer[2] = TimeOf(Num(1234))

====
